---- MODULE Spec2Model ----
(***************************************************************************)
(* Track detection of the vinyl ripper (src/src/processing/services.py):   *)
(* AudioProcessor.detect_tracks and AudioProcessor.detect_vinyl_tracks,    *)
(* with the slicing done by FileManager.split_tracks/split_vinyl_tracks.   *)
(*                                                                         *)
(* Time is in milliseconds throughout, as in pydub.  An audio buffer is    *)
(* held run-length encoded: a sequence of runs, alternately loud and       *)
(* digitally silent, each with its length in ms.  A loud millisecond is    *)
(* loud enough that every analysis window that contains it has an RMS      *)
(* above silence_thresh; a window is silent iff it lies inside a silent    *)
(* run.                                                                    *)
(***************************************************************************)
EXTENDS Integers, Sequences, FiniteSets, TLC

VARIABLES
    pc,                   \* "idle", "tracks_loop", "vinyl_loop", "done"
    method,               \* "none", "detect_tracks" or "detect_vinyl_tracks": the call made
    audio,                \* the decoded file, AudioSegment.from_file(audio_file)
    min_silence_len,      \* argument / local of the running call
    min_track_len,        \* argument of detect_tracks
    keep_silence,         \* argument / local of the running call
    segments,             \* result of split_on_silence, in scan order
    i,                    \* loop index of enumerate(segments), 0-based
    current_time,         \* the cursor
    current_side,
    track_number_in_side,
    global_track_number,
    gap_before,           \* last value assigned to the local gap_before
    tracks,               \* the list being built
    origin,               \* history: origin[k] = index i of the segment tracks[k] was built from
    result,               \* outcome of the call: see Outcome
    q_pc,                 \* analyze_quality: "idle", "loudness", "clipping", "done"
    audio_data,           \* argument of analyze_quality: see Data
    sample_rate,          \* argument of analyze_quality
    peak_level,
    rms_level,
    dynamic_range,
    loudness,
    meter,                \* the loudness measurement: "none", "measured" or "raised"
    q_result,             \* outcome of analyze_quality: see QualityOutcome
    quality,              \* an AudioQuality whose assessments are read
    peak_assessment,      \* what the property gave, "unread" before it is read
    dynamic_range_assessment,
    clipping_assessment

dvars == <<pc, method, audio, min_silence_len, min_track_len, keep_silence, segments, i,
           current_time, current_side, track_number_in_side, global_track_number,
           gap_before, tracks, origin, result>>

qvars == <<q_pc, audio_data, sample_rate, peak_level, rms_level, dynamic_range,
           loudness, meter, q_result>>

avars == <<quality, peak_assessment, dynamic_range_assessment, clipping_assessment>>

vars == <<dvars, qvars, avars>>

-----------------------------------------------------------------------------
(* Program constants *)

DEFAULT_MIN_SILENCE_LEN_MS == 2000
DEFAULT_MIN_TRACK_LEN_MS == 10000
DEFAULT_KEEP_SILENCE_MS == 500
VinylMinSilenceLen == 500
SideBreakMs == 10000
FullScale == 100        \* a sample of 1.0, samples being held in hundredths
ClipLevel == 99         \* 0.99
FallbackLufs == -2300   \* -23.0, loudness being held in hundredths of a LUFS
PeakVeryHighDb == -100  \* -1, levels being held in hundredths of a dB
PeakHighDb == -300      \* -3
DynamicRangeLowDb == 800        \* 8
DynamicRangeModerateDb == 1400  \* 14
ClippingSignificant == 1000     \* 0.1, percentages being held in ten-thousandths

(* Bounds of the model *)

MaxRuns == 5            \* runs (loud or silent) of a generated buffer
MaxAlbumTracks == 6     \* loud runs of an album-shaped buffer
MaxDataRuns == 2        \* runs of equal frames of a sample array

LoudLens == {4000, 9000, 20000}
SilentLens == {300, 800, 11000, 12000}
MinTrackLens == {5000, DEFAULT_MIN_TRACK_LEN_MS}
MinSilenceLens == {VinylMinSilenceLen, DEFAULT_MIN_SILENCE_LEN_MS}
KeepSilences == {0, DEFAULT_KEEP_SILENCE_MS, 15000}
GapValues == {0, 9999, 10000, 10001, 12000}

-----------------------------------------------------------------------------
(* Buffers *)

Run(loud, len) == [loud |-> loud, len |-> len]

\* Alternating runs: no two neighbouring runs are both loud or both silent.
Alternates(a) == \A k \in 1..(Len(a) - 1) : a[k].loud # a[k + 1].loud

AllRuns == {Run(TRUE, l) : l \in LoudLens} \cup {Run(FALSE, l) : l \in SilentLens}

GeneratedBuffers ==
    UNION {{a \in [1..n -> AllRuns] : Alternates(a)} : n \in 0..MaxRuns}

\* The 180 s scenario: two 80 s bursts separated by `gap` ms of true silence,
\* the remaining silence before the first and after the second burst.
DropEmpty(a) == SelectSeq(a, LAMBDA r : r.len > 0)

Scenario(lead, gap, tail) ==
    DropEmpty(<<Run(FALSE, lead), Run(TRUE, 80000), Run(FALSE, gap),
                Run(TRUE, 80000), Run(FALSE, tail)>>)

ScenarioBuffers ==
    {Scenario(l, 12000, 8000 - l) : l \in {0, 4000, 8000}}
    \cup {Scenario(l, 5000, 15000 - l) : l \in {0, 7500, 15000}}

\* n tracks of 20 s, 12 s of silence between them.
Album(n) ==
    [k \in 1..(2 * n - 1) |->
        IF k % 2 = 1 THEN Run(TRUE, 20000) ELSE Run(FALSE, 12000)]

AlbumBuffers == {Album(n) : n \in 1..MaxAlbumTracks}

\* Recordings whose length is not a round number of milliseconds.
OddBuffers ==
    {<<Run(TRUE, 8001)>>,
     <<Run(TRUE, 16002)>>,
     <<Run(TRUE, 4000), Run(FALSE, 11000), Run(TRUE, 12100)>>}

Buffers == GeneratedBuffers \cup ScenarioBuffers \cup AlbumBuffers \cup OddBuffers

RECURSIVE SumLen(_)
SumLen(a) == IF a = <<>> THEN 0 ELSE a[1].len + SumLen(Tail(a))

\* len(audio)
AudioLen(a) == SumLen(a)

-----------------------------------------------------------------------------
(* pydub.silence.split_on_silence(audio, min_silence_len, silence_thresh,  *)
(* keep_silence), seek_step = 1, as called by both detection methods.      *)

Range(s, e) == [start |-> s, end |-> e]

Max(x, y) == IF x >= y THEN x ELSE y
Min(x, y) == IF x <= y THEN x ELSE y

\* Position of every run in the buffer.
RunRanges(a) ==
    [k \in 1..Len(a) |->
        [start |-> SumLen(SubSeq(a, 1, k - 1)),
         end   |-> SumLen(SubSeq(a, 1, k)),
         loud  |-> a[k].loud]]

DetectSilenceAnyLength(a, msl) ==
    LET silent == SelectSeq(RunRanges(a), LAMBDA r : ~r.loud)
    IN  [k \in 1..Len(silent) |-> Range(silent[k].start, silent[k].end)]

\* detect_silence: every window of min_silence_len ms whose RMS is at most the
\* threshold starts a silence; consecutive starts are merged into one range.
\* The windows inside one silent run are exactly the consecutive ones, so the
\* ranges are the silent runs of at least min_silence_len ms.
DetectSilence(a, msl) ==
    LET silent == SelectSeq(RunRanges(a), LAMBDA r : ~r.loud /\ r.end - r.start >= msl)
    IN  [k \in 1..Len(silent) |-> Range(silent[k].start, silent[k].end)]

DetectNonsilentNoTail(a, msl) ==
    LET silent_ranges == DetectSilence(a, msl)
        len_seg == AudioLen(a)
        n == Len(silent_ranges)
        between == [k \in 1..n |->
                      Range(IF k = 1 THEN 0 ELSE silent_ranges[k - 1].end,
                            silent_ranges[k].start)]
    IN  IF n = 0 THEN <<Range(0, len_seg)>>
        ELSE IF silent_ranges[1] = Range(0, len_seg) THEN <<>>
        ELSE IF between[1] = Range(0, 0) THEN Tail(between)
        ELSE between

\* detect_nonsilent: the complement of the silent ranges.
DetectNonsilent(a, msl) ==
    LET silent_ranges == DetectSilence(a, msl)
        len_seg == AudioLen(a)
        n == Len(silent_ranges)
        between == [k \in 1..n |->
                      Range(IF k = 1 THEN 0 ELSE silent_ranges[k - 1].end,
                            silent_ranges[k].start)]
        withLast == IF silent_ranges[n].end # len_seg
                    THEN Append(between, Range(silent_ranges[n].end, len_seg))
                    ELSE between
    IN  IF n = 0 THEN <<Range(0, len_seg)>>
        ELSE IF silent_ranges[1] = Range(0, len_seg) THEN <<>>
        ELSE IF withLast[1] = Range(0, 0) THEN Tail(withLast)
        ELSE withLast

SplitOnSilenceNoMeet(a, msl, keep) ==
    LET ns == DetectNonsilent(a, msl)
    IN  [k \in 1..Len(ns) |->
            Range(Max(ns[k].start - keep, 0), Min(ns[k].end + keep, AudioLen(a)))]

\* split_on_silence: each non-silent range grown by keep_silence on both
\* sides; two grown ranges that overlap meet in the middle; the result is
\* clamped to the buffer.  A segment is kept with its position in the
\* buffer; the detection code reads only its length.
SplitOnSilence(a, msl, keep) ==
    LET ns == DetectNonsilent(a, msl)
        n == Len(ns)
        grown == [k \in 1..n |-> Range(ns[k].start - keep, ns[k].end + keep)]
        fixed == [k \in 1..n |->
                    Range(IF k > 1 /\ grown[k].start < grown[k - 1].end
                          THEN (grown[k - 1].end + grown[k].start) \div 2
                          ELSE grown[k].start,
                          IF k < n /\ grown[k + 1].start < grown[k].end
                          THEN (grown[k].end + grown[k + 1].start) \div 2
                          ELSE grown[k].end)]
    IN  [k \in 1..n |-> Range(Max(fixed[k].start, 0), Min(fixed[k].end, AudioLen(a)))]

\* len(segment)
SegLen(seg) == seg.end - seg.start

\* sum(len(s) for s in segments[:i])
RECURSIVE SumSegLens(_, _)
SumSegLens(segs, n) == IF n = 0 THEN 0 ELSE SegLen(segs[n]) + SumSegLens(segs, n - 1)

-----------------------------------------------------------------------------
(* Seconds.  start_time and end_time are the doubles ms / 1000.0.  Division *)
(* of an integer by 1000.0 is strictly increasing, so a time in seconds is *)
(* held as the integer ms it was made from and compared through it.  The   *)
(* way back, int(t * 1000), is not the identity: the product is rounded to *)
(* a double again and truncated.                                           *)

ToSecondsWhole(ms) == (ms \div 1000) * 1000

ToSeconds(ms) == ms

RECURSIVE Pow2Mod1000(_)
Pow2Mod1000(j) == IF j = 0 THEN 1 ELSE (2 * Pow2Mod1000(j - 1)) % 1000

\* ms = m * 2^k with 1000 <= m < 2000: k for ms >= 1000, -k for ms < 1000.
RECURSIVE HalvingsTo2000(_)
HalvingsTo2000(ms) == IF ms < 2000 THEN 0 ELSE 1 + HalvingsTo2000(ms \div 2)

RECURSIVE DoublingsTo1000(_)
DoublingsTo1000(ms) == IF ms >= 1000 THEN 0 ELSE 1 + DoublingsTo1000(2 * ms)

RECURSIVE Pow2(_)
Pow2(j) == IF j = 0 THEN 1 ELSE 2 * Pow2(j - 1)

\* int((ms / 1000.0) * 1000) in IEEE double arithmetic.  The quotient q has
\* 2^k <= q < 2^(k+1); its rounding error, in units of the last place, is
\* r/1000 below (r < 500) or (1000-r)/1000 above the exact value, with
\* r = ms * 2^(52-k) mod 1000.  When ms < 1024 * 2^k the product lies in the
\* binade below 2^(k+10), where an error of more than 0.256 units of q is
\* more than half a unit of the product, and the product rounds to the
\* double just below ms, which truncates to ms - 1.
IntMs(ms) ==
    IF ms <= 0 THEN ms
    ELSE LET up == HalvingsTo2000(ms)
             down == DoublingsTo1000(ms)
             lowHalf == IF ms >= 1000 THEN (ms \div Pow2(up)) < 1024
                        ELSE ms * Pow2(down) < 1024
             e == IF ms >= 1000 THEN 52 - up ELSE 52 + down
             r == ((ms % 1000) * Pow2Mod1000(e)) % 1000
         IN  IF lowHalf /\ r > 256 /\ r < 500 THEN ms - 1 ELSE ms

\* Sign of (ms / 1000.0) * 1000 - ms in IEEE double arithmetic: the product is
\* ms itself, the double just below it (-1) or the double just above it (1).
\* With r as for IntMs, the product misses ms when the quotient's error is
\* more than 0.256 units of its last place: 256 < r < 500 below, 500 < r < 744
\* above.
ProductError(ms) ==
    IF ms <= 0 THEN 0
    ELSE LET up == HalvingsTo2000(ms)
             down == DoublingsTo1000(ms)
             lowHalf == IF ms >= 1000 THEN (ms \div Pow2(up)) < 1024
                        ELSE ms * Pow2(down) < 1024
             e == IF ms >= 1000 THEN 52 - up ELSE 52 + down
             r == ((ms % 1000) * Pow2Mod1000(e)) % 1000
         IN  IF lowHalf /\ r > 256 /\ r < 500 THEN -1
             ELSE IF lowHalf /\ r > 500 /\ r < 744 THEN 1
             ELSE 0

-----------------------------------------------------------------------------
(* Track (src/src/processing/models.py) *)

Track(number, duration_ms, start_time, end_time, side) ==
    [number |-> number, duration_ms |-> duration_ms,
     start_time |-> start_time, end_time |-> end_time, side |-> side]

\* side: str = "A", the default detect_tracks leaves in place
DefaultSide == "A"

Sides == <<"A", "B", "C", "D">>

\* Position of a side letter in A, B, C, D; 0 for anything else.
SideIndex(s) == IF \E k \in 1..4 : Sides[k] = s
                THEN CHOOSE k \in 1..4 : Sides[k] = s
                ELSE 0

-----------------------------------------------------------------------------
(* The two scans over the segment list *)

SurvivesVinylStrict(len, min_len) ==
    IF method = "detect_vinyl_tracks" THEN len > min_len ELSE len >= min_len

SurvivesStrict(len, min_len) == len > min_len

\* len(segment) >= min_track_len
Survives(len, min_len) == len >= min_len

AdvanceNot(time, len) == time

\* current_time += len(segment)
AdvanceSharedCursor(time, len) == time + len + (IF q_pc = "loudness" THEN 1 ELSE 0)

Advance(time, len) == time + len

\* number=i + 1 in detect_tracks
TracksNumber(idx) == idx + 1

VinylNumberByIndex(idx, gtn) == idx + 1

\* number=global_track_number in detect_vinyl_tracks
VinylNumber(idx, gtn) == gtn

GapBeforeSincePrevious(idx, time, segs) ==
    IF idx > 0 THEN time - SumSegLens(segs, idx - 1) ELSE 0

GapBeforeIsCursor(idx, time, segs) ==
    IF idx > 0 THEN time ELSE 0

\* gap_before = 0; if i > 0: gap_before = current_time - sum(len(s) for s in segments[:i])
GapBefore(idx, time, segs) ==
    IF idx > 0 THEN time - SumSegLens(segs, idx) ELSE 0

\* current_side = "A"
InitialSide == "A"

NextSideAtThreshold(side, gap, gtn) ==
    IF gap >= SideBreakMs /\ gtn > 1
    THEN IF side = "A" THEN "B"
         ELSE IF side = "B" THEN "C"
         ELSE IF side = "C" THEN "D"
         ELSE side
    ELSE side

NextSideWrap(side, gap, gtn) ==
    IF gap > SideBreakMs /\ gtn > 1
    THEN IF side = "A" THEN "B"
         ELSE IF side = "B" THEN "C"
         ELSE IF side = "C" THEN "D"
         ELSE "A"
    ELSE side

NextSideBeyond(side, gap, gtn) ==
    IF gap > SideBreakMs /\ gtn > 1
    THEN IF side = "A" THEN "B"
         ELSE IF side = "B" THEN "C"
         ELSE IF side = "C" THEN "D"
         ELSE "E"
    ELSE side

\* if gap_before > 10000 and global_track_number > 1: A -> B -> C -> D
NextSide(side, gap, gtn) ==
    IF gap > SideBreakMs /\ gtn > 1
    THEN IF side = "A" THEN "B"
         ELSE IF side = "B" THEN "C"
         ELSE IF side = "C" THEN "D"
         ELSE side
    ELSE side

\* track_number_in_side = 1 on a side change, then += 1 after the Track
NextNumberInSide(n, gap, gtn) ==
    (IF gap > SideBreakMs /\ gtn > 1 THEN 1 ELSE n) + 1

-----------------------------------------------------------------------------
(* analyze_quality(audio_data, sample_rate).                                *)
(*                                                                         *)
(* A sample array is held as runs of equal frames: a frame is the tuple of *)
(* its channels' samples, in hundredths of full scale, and a run says how  *)
(* many times in a row the frame occurs.  ndim is the number of axes of    *)
(* the numpy array: 1 for a mono array of shape (n,), 2 for shape (n, c).  *)

Data(ndim, channels, runs) == [ndim |-> ndim, channels |-> channels, runs |-> runs]

FrameRun(frame, count) == [frame |-> frame, count |-> count]

SampleValues == {-FullScale, 0, 50, 98, ClipLevel, FullScale}

\* How often a frame is repeated: long stretches are stretches of silence.
Repeats(frame) ==
    IF \A c \in 1..Len(frame) : frame[c] = 0 THEN {1, 20000, 2100000} ELSE {1, 2}

FramesOf(channels) == [1..channels -> SampleValues]

FrameRuns(channels) ==
    {FrameRun(f, n) : f \in {g \in FramesOf(channels) :
                               \A c \in 1..channels : g[c] \in {0, ClipLevel}}
                           \cup {[c \in 1..channels |-> v] : v \in SampleValues}
                           \cup {[c \in 1..channels |-> IF c = 1 THEN v ELSE -v] :
                                    v \in {50, FullScale}},
                      n \in {1, 2, 20000, 2100000}}

DatasOf(ndim, channels) ==
    UNION {{Data(ndim, channels, rs) :
              rs \in {r \in [1..n -> FrameRuns(channels)] :
                        /\ \A k \in 1..n : r[k].count \in Repeats(r[k].frame)
                        /\ \A k \in 1..(n - 1) : r[k].frame # r[k + 1].frame}} :
           n \in 0..MaxDataRuns}

\* Shapes (n,), (n, 2) and (n, 0): mono, stereo, and an array of no channels.
Datas == DatasOf(1, 1) \cup DatasOf(2, 2) \cup DatasOf(2, 0)

SampleRates == {8000, 44100}

Abs(x) == IF x < 0 THEN -x ELSE x

RECURSIVE SumSeq(_)
SumSeq(seq) == IF seq = <<>> THEN 0 ELSE seq[1] + SumSeq(Tail(seq))

\* len(audio_data), and len(data_mono): the mean over axis 1 has one value per frame
FrameCount(data) == SumSeq([k \in 1..Len(data.runs) |-> data.runs[k].count])

\* len(audio_data.flatten())
SampleCount(data) == FrameCount(data) * data.channels

MaxAbsMono(data) ==
    LET mags == {Abs(SumSeq(data.runs[k].frame)) : k \in 1..Len(data.runs)}
    IN  CHOOSE m \in mags : \A x \in mags : x <= m

\* np.max(np.abs(audio_data)), over every channel
MaxAbs(data) ==
    LET mags == UNION {{Abs(data.runs[k].frame[c]) : c \in 1..data.channels} :
                         k \in 1..Len(data.runs)}
    IN  CHOOSE m \in mags : \A x \in mags : x <= m

\* sum of audio_data**2
SumSquares(data) ==
    SumSeq([k \in 1..Len(data.runs) |->
              data.runs[k].count * SumSeq([c \in 1..data.channels |->
                                             data.runs[k].frame[c] * data.runs[k].frame[c]])])

ClippedSamplesAt(data) ==
    SumSeq([k \in 1..Len(data.runs) |->
              data.runs[k].count * SumSeq([c \in 1..data.channels |->
                                             IF Abs(data.runs[k].frame[c]) = ClipLevel
                                             THEN 1 ELSE 0])])

ClippedSamplesAbove(data) ==
    SumSeq([k \in 1..Len(data.runs) |->
              data.runs[k].count * SumSeq([c \in 1..data.channels |->
                                             IF Abs(data.runs[k].frame[c]) > ClipLevel
                                             THEN 1 ELSE 0])])

\* np.sum(np.abs(audio_data) >= 0.99)
ClippedSamples(data) ==
    SumSeq([k \in 1..Len(data.runs) |->
              data.runs[k].count * SumSeq([c \in 1..data.channels |->
                                             IF Abs(data.runs[k].frame[c]) >= ClipLevel
                                             THEN 1 ELSE 0])])

\* Floating-point results are held as what they are the value of, each kind
\* of value a record of its own.

\* -float("inf")
NegInf == [kind |-> "-inf"]

\* the integer 0
Zero == [kind |-> "0"]

\* A finite level in dB: 10 * log10(power / (over * FullScale^2)), held as the
\* quantity whose logarithm it is.
Level(power, over) == [kind |-> "dB", power |-> power, over |-> over]

\* A loudness in LUFS, in hundredths.
Lufs(hundredths) == [kind |-> "lufs", hundredths |-> hundredths]

\* max_abs == 0 ? -inf : 20 * np.log10(max_abs)
PeakLevel(max_abs) == IF max_abs = 0 THEN NegInf ELSE Level(max_abs * max_abs, 1)

\* rms = np.sqrt(np.mean(audio_data**2)); rms == 0 ? -inf : 20 * np.log10(rms)
RmsLevel(data) ==
    IF SumSquares(data) = 0 THEN NegInf ELSE Level(SumSquares(data), SampleCount(data))

\* 0 if either level is -inf, else peak_level - rms_level, held as the pair
DynamicRange(peak, rms) ==
    IF rms = NegInf \/ peak = NegInf THEN Zero ELSE [kind |-> "minus", from |-> peak, minus |-> rms]

\* round(x, 2): -inf and nan stay as they are (no error is raised), so do 0
\* and a whole number of hundredths; any other value is marked as rounded.
Round2(x) == IF x.kind \in {"-inf", "nan", "0", "lufs"} THEN x ELSE [kind |-> "round2", of |-> x]

\* round((clipped_samples / len(audio_data.flatten())) * 100, 4), in
\* ten-thousandths of a percent: the nearest integer to 10^6 * clipped / total,
\* a tie going to the even one.
ClippingPercent(clipped, total) ==
    LET q == (1000000 * clipped) \div total
        r == (1000000 * clipped) % total
    IN  IF 2 * r > total \/ (2 * r = total /\ q % 2 = 1) THEN q + 1 ELSE q

\* pyln.Meter(sample_rate).integrated_loudness(audio_data) wants more than one
\* gating block of 0.4 s and raises ValueError on a shorter array.
BlockTenths == 4
TooShortForMeter(data, rate) == 10 * FrameCount(data) < BlockTenths * rate

\* What a successful measurement may return: a loudness, or -inf or nan when
\* no block passes the gates.
MeterValues == {NegInf, [kind |-> "nan"], Lufs(-7000), Lufs(FallbackLufs), Lufs(-1437)}

\* len(audio_data) / sample_rate
Duration(data, rate) == [frames |-> FrameCount(data), rate |-> rate]

AudioQuality(peak_db, rms_db, dr, lufs, clipping_percent, rate, duration_seconds) ==
    [peak_db |-> peak_db, rms_db |-> rms_db, dynamic_range |-> dr,
     loudness_lufs |-> lufs, clipping_percent |-> clipping_percent,
     sample_rate |-> rate, duration_seconds |-> duration_seconds]

NoQuality == [kind |-> "none"]

\* Outcome of analyze_quality: nothing yet ("none"), a raised error, or a
\* returned AudioQuality.
QualityOutcome(status, record) == [status |-> status, quality |-> record]

\* raise QualityAnalysisError("Audio data is empty")
EmptyDataError == "QualityAnalysisError"

QualityHandlerAsDetect(raised) == "ProcessingError"

QualityHandlerPassesOn(raised) == raised

\* except Exception as e: raise QualityAnalysisError("Failed to analyze audio quality", ...)
QualityHandler(raised) == "QualityAnalysisError"

\* A level or a range that is a number, in hundredths of a dB.
Db(hundredths) == [kind |-> "hundredths", hundredths |-> hundredths]

\* x > bound and x < bound as Python decides them for a float x: nan is
\* neither above nor below anything, -inf is below everything.
Greater(x, bound) ==
    IF x.kind = "hundredths" THEN x.hundredths > bound
    ELSE IF x.kind = "0" THEN 0 > bound
    ELSE FALSE

Less(x, bound) ==
    IF x.kind = "hundredths" THEN x.hundredths < bound
    ELSE IF x.kind = "0" THEN 0 < bound
    ELSE x.kind = "-inf"

PeakAssessmentAtBounds(q) ==
    IF ~Less(q.peak_db, PeakVeryHighDb) THEN "Peak level is very high (may be clipped)"
    ELSE IF ~Less(q.peak_db, PeakHighDb) THEN "Peak level is high"
    ELSE "Peak level is good"

\* AudioQuality.peak_assessment
PeakAssessment(q) ==
    IF Greater(q.peak_db, PeakVeryHighDb) THEN "Peak level is very high (may be clipped)"
    ELSE IF Greater(q.peak_db, PeakHighDb) THEN "Peak level is high"
    ELSE "Peak level is good"

\* AudioQuality.dynamic_range_assessment
DynamicRangeAssessment(q) ==
    IF Less(q.dynamic_range, DynamicRangeLowDb) THEN "Low dynamic range (heavily compressed)"
    ELSE IF Less(q.dynamic_range, DynamicRangeModerateDb) THEN "Moderate dynamic range"
    ELSE "Good dynamic range"

ClippingAssessmentAtBound(q) ==
    IF q.clipping_percent >= ClippingSignificant THEN "Significant clipping detected"
    ELSE IF q.clipping_percent > 0 THEN "Minor clipping detected"
    ELSE "No clipping detected"

\* AudioQuality.clipping_assessment
ClippingAssessment(q) ==
    IF q.clipping_percent > ClippingSignificant THEN "Significant clipping detected"
    ELSE IF q.clipping_percent > 0 THEN "Minor clipping detected"
    ELSE "No clipping detected"

\* No AudioQuality at hand, no assessment read.
NothingAssessed ==
    /\ quality = NoQuality
    /\ peak_assessment = "unread"
    /\ dynamic_range_assessment = "unread"
    /\ clipping_assessment = "unread"

\* No call of analyze_quality under way.
QualityIdle ==
    /\ q_pc = "idle"
    /\ peak_level = Zero
    /\ rms_level = Zero
    /\ dynamic_range = Zero
    /\ loudness = Zero
    /\ meter = "none"
    /\ q_result = QualityOutcome("none", NoQuality)

\* Outcome of a call: nothing yet ("none"), a raised ProcessingError, or a
\* returned Track list.
Outcome(status, list) == [status |-> status, tracks |-> list]

\* No call of detect_tracks or detect_vinyl_tracks under way.
DetectIdle ==
    /\ pc = "idle"
    /\ method = "none"
    /\ min_silence_len = 0
    /\ min_track_len = 0
    /\ keep_silence = 0
    /\ segments = <<>>
    /\ i = 0
    /\ current_time = 0
    /\ current_side = "-"
    /\ track_number_in_side = 0
    /\ global_track_number = 0
    /\ gap_before = 0
    /\ tracks = <<>>
    /\ origin = <<>>
    /\ result = Outcome("none", <<>>)

Init ==
    /\ DetectIdle
    /\ audio \in Buffers
    /\ NothingAssessed
    /\ QualityIdle
    /\ audio_data = Data(1, 1, <<>>)
    /\ sample_rate = 44100

\* raise ProcessingError("Audio file is empty")
EmptyFileError == "ProcessingError"

\* except Exception as e: raise ProcessingError("Failed to detect ...", details=str(e))
\* Whatever was raised inside the try block, the caller sees a ProcessingError.
Handler(raised) == "ProcessingError"

IsEmptyAudioNever(a) == AudioLen(a) < 0

\* if len(audio) == 0
IsEmptyAudio(a) == AudioLen(a) = 0

NoSegmentsFails == Outcome(Handler("ProcessingError"), <<>>)

\* if not segments: return []
NoSegments == Outcome("returned", <<>>)

ReturnTracksOrFail(list) ==
    IF list = <<>> THEN Outcome(Handler("ProcessingError"), <<>>)
    ELSE Outcome("returned", list)

\* return tracks
ReturnTracks(list) == Outcome("returned", list)

\* Lines shared by the two methods: load, reject an empty file, split on
\* silence, return [] when there is no segment, else enter the loop `loop`.
\* A ProcessingError raised inside the try block is caught by the method's
\* own `except Exception` and raised again as a ProcessingError.
Enter(msl, keep, loop) ==
    /\ min_silence_len' = msl
    /\ keep_silence' = keep
    /\ tracks' = <<>>
    /\ origin' = <<>>
    /\ i' = 0
    /\ current_time' = 0
    /\ IF IsEmptyAudio(audio)
       THEN /\ segments' = <<>>
            /\ result' = Outcome(Handler(EmptyFileError), <<>>)
            /\ pc' = "done"
       ELSE /\ segments' = SplitOnSilence(audio, msl, keep)
            /\ IF segments' = <<>>
               THEN result' = NoSegments /\ pc' = "done"
               ELSE result' = Outcome("none", <<>>) /\ pc' = loop

\* detect_tracks(audio_file, silence_thresh, min_silence_len, min_track_len, keep_silence)
DetectTracks(msl, mtl, keep) ==
    /\ pc = "idle"
    /\ method' = "detect_tracks"
    /\ Enter(msl, keep, "tracks_loop")
    /\ min_track_len' = mtl
    /\ UNCHANGED <<audio, current_side, track_number_in_side, global_track_number, gap_before>>
    /\ UNCHANGED <<qvars, avars>>

\* One iteration of `for i, segment in enumerate(segments)` in detect_tracks.
TracksStep ==
    /\ pc = "tracks_loop"
    /\ i < Len(segments)
    /\ LET len == SegLen(segments[i + 1])
       IN  /\ IF Survives(len, min_track_len)
              THEN /\ tracks' = Append(tracks,
                                   Track(TracksNumber(i), len, ToSeconds(current_time),
                                         ToSeconds(current_time + len), DefaultSide))
                   /\ origin' = Append(origin, i)
              ELSE UNCHANGED <<tracks, origin>>
           /\ current_time' = Advance(current_time, len)
    /\ i' = i + 1
    /\ UNCHANGED <<pc, method, audio, min_silence_len, min_track_len, keep_silence, segments,
                   current_side, track_number_in_side, global_track_number,
                   gap_before, result>>
    /\ UNCHANGED <<qvars, avars>>

\* return tracks, detect_tracks
TracksReturn ==
    /\ pc = "tracks_loop"
    /\ i = Len(segments)
    /\ result' = ReturnTracks(tracks)
    /\ pc' = "done"
    /\ UNCHANGED <<method, audio, min_silence_len, min_track_len, keep_silence, segments, i,
                   current_time, current_side, track_number_in_side,
                   global_track_number, gap_before, tracks, origin>>
    /\ UNCHANGED <<qvars, avars>>

\* detect_vinyl_tracks(audio_file)
DetectVinylTracks ==
    /\ pc = "idle"
    /\ method' = "detect_vinyl_tracks"
    /\ Enter(VinylMinSilenceLen, DEFAULT_KEEP_SILENCE_MS, "vinyl_loop")
    /\ min_track_len' = DEFAULT_MIN_TRACK_LEN_MS
    /\ current_side' = InitialSide
    /\ track_number_in_side' = 1
    /\ global_track_number' = 1
    /\ UNCHANGED <<audio, gap_before>>
    /\ UNCHANGED <<qvars, avars>>

\* One iteration of the loop of detect_vinyl_tracks, `gap` being the value
\* the iteration assigns to gap_before when the segment survives.
VinylBody(gap) ==
    /\ pc = "vinyl_loop"
    /\ i < Len(segments)
    /\ LET len == SegLen(segments[i + 1])
       IN  /\ IF Survives(len, DEFAULT_MIN_TRACK_LEN_MS)
              THEN /\ gap_before' = gap
                   /\ current_side' = NextSide(current_side, gap, global_track_number)
                   /\ tracks' = Append(tracks,
                                   Track(VinylNumber(i, global_track_number), len,
                                         ToSeconds(current_time),
                                         ToSeconds(current_time + len), current_side'))
                   /\ origin' = Append(origin, i)
                   /\ global_track_number' = global_track_number + 1
                   /\ track_number_in_side' =
                          NextNumberInSide(track_number_in_side, gap, global_track_number)
              ELSE UNCHANGED <<gap_before, current_side, tracks, origin,
                               global_track_number, track_number_in_side>>
           /\ current_time' = Advance(current_time, len)
    /\ i' = i + 1
    /\ UNCHANGED <<pc, method, audio, min_silence_len, min_track_len, keep_silence, segments, result>>
    /\ UNCHANGED <<qvars, avars>>

VinylStep == VinylBody(GapBefore(i, current_time, segments))

\* return tracks, detect_vinyl_tracks
VinylReturn ==
    /\ pc = "vinyl_loop"
    /\ i = Len(segments)
    /\ result' = ReturnTracks(tracks)
    /\ pc' = "done"
    /\ UNCHANGED <<method, audio, min_silence_len, min_track_len, keep_silence, segments, i,
                   current_time, current_side, track_number_in_side,
                   global_track_number, gap_before, tracks, origin>>
    /\ UNCHANGED <<qvars, avars>>

Next ==
    \/ \E msl \in MinSilenceLens, mtl \in MinTrackLens, keep \in KeepSilences :
          DetectTracks(msl, mtl, keep)
    \/ TracksStep
    \/ TracksReturn
    \/ DetectVinylTracks
    \/ VinylStep
    \/ VinylReturn

Spec == Init /\ [][Next]_vars

-----------------------------------------------------------------------------
(* The side rule on its own.  In Spec the value assigned to gap_before is   *)
(* fixed by the cursor; SpecGap runs the same loop body with the value     *)
(* drawn from GapValues for every segment but the first, so that the side  *)
(* rule of lines 182-190 is applied to gaps on both sides of the           *)
(* threshold.  Every behaviour of Spec that calls detect_vinyl_tracks is a *)
(* behaviour of SpecGap.                                                   *)

VinylStepGap ==
    \E g \in GapValues : VinylBody(IF i > 0 THEN g ELSE 0)

NextGap ==
    \/ DetectVinylTracks
    \/ VinylStepGap
    \/ VinylReturn

SpecGap == Init /\ [][NextGap]_vars

-----------------------------------------------------------------------------
(* Properties *)

Returned == pc = "done" /\ result.status = "returned"
VinylReturned == method = "detect_vinyl_tracks" /\ Returned
TracksReturned == method = "detect_tracks" /\ Returned

\* The segment tracks[k] was built from.
SegmentOf(k) == segments[origin[k] + 1]

\* Silence in the buffer between the end of segment idx - 1 and the start of
\* segment idx (0-based, idx > 0).
SilenceBefore(idx) == segments[idx + 1].start - segments[idx].end

Scenario12 == {Scenario(l, 12000, 8000 - l) : l \in {0, 4000, 8000}}

\* C1: on the 180 s scenario buffer (two 80 s bursts 12 s apart)
\* detect_vinyl_tracks finds 2 segments and returns 2 Tracks, numbered 1 and
\* 2, on sides A and B.
C1_ScenarioTwoSides ==
    (VinylReturned /\ audio \in Scenario12) =>
        /\ Len(segments) = 2
        /\ Len(result.tracks) = 2
        /\ result.tracks[1].number = 1 /\ result.tracks[1].side = "A"
        /\ result.tracks[2].number = 2 /\ result.tracks[2].side = "B"

\* C2: for a surviving segment that is not the first scanned one, gap_before
\* is the silence between the end of the previous scanned segment and the
\* start of this one.  (gap_before keeps the value computed for the last
\* Track emitted.)
C2_GapIsSilence ==
    (method = "detect_vinyl_tracks" /\ tracks # <<>> /\ origin[Len(tracks)] > 0) =>
        gap_before = SilenceBefore(origin[Len(tracks)])

\* C3: every returned Track lies where its segment lies in the buffer: the
\* slice [int(start_time*1000), int(end_time*1000)) taken by split_tracks and
\* split_vinyl_tracks is the segment's own span.
C3_TrackAtSegmentPosition ==
    Returned =>
        \A k \in 1..Len(result.tracks) :
            /\ IntMs(result.tracks[k].start_time) = SegmentOf(k).start
            /\ IntMs(result.tracks[k].end_time) = SegmentOf(k).end

\* C4: the side of an emitted Track differs from the side of the Track
\* emitted before it only if gap_before > 10000 and a Track was emitted
\* before, and then it is the next letter; whenever gap_before > 10000, a
\* Track was emitted before and the side is not D, the side advances; the
\* first Track is on side A; a gap of exactly 10000 does not advance.
C4_SideRule ==
    [][(pc = "vinyl_loop" /\ Len(tracks') = Len(tracks) + 1) =>
          LET new == tracks'[Len(tracks')].side
          IN  IF tracks = <<>>
              THEN new = "A"
              ELSE LET old == tracks[Len(tracks)].side
                   IN  /\ new # old =>
                            /\ gap_before' > 10000
                            /\ SideIndex(old) > 0
                            /\ SideIndex(new) = SideIndex(old) + 1
                       /\ (gap_before' > 10000 /\ old # "D") => new # old
                       /\ gap_before' = 10000 => new = old]_vars

C4_Witness ==
    /\ method = "detect_vinyl_tracks"
    /\ Len(tracks) = 2
    /\ origin[1] > 0
    /\ tracks[1].side = "A" /\ tracks[2].side = "B"
    /\ gap_before = 10001

\* C5: the Tracks returned by detect_vinyl_tracks are numbered 1, 2, ..., n in
\* order, whichever segments were discarded.
C5_VinylNumbersContiguous ==
    VinylReturned =>
        \A k \in 1..Len(result.tracks) : result.tracks[k].number = k

C5_Witness ==
    /\ VinylReturned
    /\ Len(result.tracks) = 2
    /\ origin[2] = 2

\* C6: the Tracks returned by detect_tracks are numbered 1, 2, ..., n in
\* order, whichever segments were discarded.
C6_TracksNumbersContiguous ==
    TracksReturned =>
        \A k \in 1..Len(result.tracks) : result.tracks[k].number = k

\* C7: in a list returned by detect_vinyl_tracks every side is one of A, B, C,
\* D and the sides never go back along the list.
C7_SidesOrdered ==
    VinylReturned =>
        /\ \A k \in 1..Len(result.tracks) : result.tracks[k].side \in {"A", "B", "C", "D"}
        /\ \A k \in 1..(Len(result.tracks) - 1) :
              SideIndex(result.tracks[k].side) <= SideIndex(result.tracks[k + 1].side)

C7_Witness ==
    /\ VinylReturned
    /\ Len(result.tracks) >= 5
    /\ result.tracks[1].side = "A"
    /\ result.tracks[Len(result.tracks) - 1].side = "D"
    /\ result.tracks[Len(result.tracks)].side = "D"

\* C8: once the current side is D it stays D, whatever gaps follow, and the
\* current side is never anything but A, B, C or D during the scan.
C8_SideStaysD ==
    [][/\ current_side = "D" => current_side' = "D"
       /\ pc' = "vinyl_loop" => current_side' \in {"A", "B", "C", "D"}]_vars

C8_Witness ==
    /\ pc = "vinyl_loop"
    /\ Len(tracks) >= 5
    /\ tracks[Len(tracks) - 1].side = "D"
    /\ gap_before = 12000
    /\ current_side = "D"

\* C9: in a returned list every Track has start_time < end_time and ends no
\* later than the next one starts.
C9_NoOverlap ==
    Returned =>
        /\ \A k \in 1..Len(result.tracks) :
              result.tracks[k].start_time < result.tracks[k].end_time
        /\ \A k \in 1..(Len(result.tracks) - 1) :
              result.tracks[k].end_time <= result.tracks[k + 1].start_time

C9_Witness ==
    /\ Returned
    /\ Len(result.tracks) >= 2
    /\ Len(segments) > Len(result.tracks)
    /\ result.tracks[1].end_time < result.tracks[2].start_time

\* C10: detect_vinyl_tracks returns one Track per segment of at least 10000
\* ms, in scan order, with the segment's length as duration_ms.
C10_OneTrackPerSurvivor ==
    VinylReturned =>
        LET kept == SelectSeq(segments, LAMBDA seg : seg.end - seg.start >= 10000)
        IN  /\ Len(result.tracks) = Len(kept)
            /\ \A k \in 1..Len(kept) :
                  /\ SegmentOf(k) = kept[k]
                  /\ result.tracks[k].duration_ms = kept[k].end - kept[k].start
            /\ \A k \in 1..(Len(origin) - 1) : origin[k] < origin[k + 1]

C10_Witness ==
    /\ VinylReturned
    /\ Len(segments) > Len(result.tracks)
    /\ \E k \in 1..Len(result.tracks) : result.tracks[k].duration_ms = 10000

\* Length of all the segments scanned before segment idx (0-based).
ScannedBefore(idx) == SumSegLens(segments, idx)

\* C11 (as stated): a segment shorter than min_track_len produces no Track
\* but advances the cursor: for each Track, start_time * 1000 is the summed
\* length of the segments scanned before it and end_time * 1000 that sum plus
\* its own length, the products taken as the program's doubles.
C11_ProductIsCursor ==
    \A k \in 1..Len(tracks) :
        /\ tracks[k].start_time = ScannedBefore(origin[k])
        /\ ProductError(tracks[k].start_time) = 0
        /\ tracks[k].end_time = ScannedBefore(origin[k]) + SegLen(SegmentOf(k))
        /\ ProductError(tracks[k].end_time) = 0

\* C11 (amended): for each Track, start_time is the double (sum of the
\* lengths of the segments scanned before it, kept or discarded) / 1000.0 and
\* end_time the double (that sum plus its own length) / 1000.0.
C11_CursorCountsDiscarded ==
    \A k \in 1..Len(tracks) :
        /\ tracks[k].start_time = ScannedBefore(origin[k])
        /\ tracks[k].end_time = ScannedBefore(origin[k]) + SegLen(SegmentOf(k))

C11_Witness ==
    /\ Returned
    /\ Len(result.tracks) >= 2
    /\ Len(segments) > Len(result.tracks)
    /\ origin[1] > 0
    /\ result.tracks[1].start_time > 0

\* Every segment found is shorter than the minimum track length of the call.
AllTooShort ==
    /\ segments # <<>>
    /\ \A k \in 1..Len(segments) : SegLen(segments[k]) < min_track_len

\* C12 (as stated): when there are segments but none reaches min_track_len,
\* the call fails with a ProcessingError.
C12_AllShortFails ==
    (pc = "done" /\ AllTooShort) => result.status = "ProcessingError"

\* C12 (amended): when there are segments but none reaches min_track_len,
\* detect_tracks and detect_vinyl_tracks return an empty Track list and raise
\* no error, as they do when there is no segment at all.
C12_AllShortReturnsEmpty ==
    (pc = "done" /\ AllTooShort) => result = Outcome("returned", <<>>)

C12_Witness ==
    /\ pc = "done"
    /\ AllTooShort
    /\ Len(segments) >= 2
    /\ result = Outcome("returned", <<>>)

\* C13: when a non-empty buffer yields no segment, both methods return an
\* empty Track list and raise no error.
C13_NoSegmentsReturnsEmpty ==
    (pc = "done" /\ AudioLen(audio) > 0 /\ segments = <<>>) =>
        result = Outcome("returned", <<>>)

C13_Witness ==
    /\ pc = "done"
    /\ method = "detect_tracks"
    /\ AudioLen(audio) > 0
    /\ segments = <<>>
    /\ result.status = "returned"

\* C14: on a zero-length buffer both methods fail with a ProcessingError and
\* return no Track list.
C14_EmptyBufferFails ==
    (pc = "done" /\ AudioLen(audio) = 0) => result = Outcome("ProcessingError", <<>>)

C14_Witness ==
    /\ pc = "done"
    /\ method = "detect_vinyl_tracks"
    /\ AudioLen(audio) = 0
    /\ result.status = "ProcessingError"

Scenario5 == {Scenario(l, 5000, 15000 - l) : l \in {0, 7500, 15000}}

\* C15: on the scenario buffer with the gap shortened to 5 s
\* detect_vinyl_tracks returns exactly 2 Tracks, both on side A.
C15_ShortGapSameSide ==
    (VinylReturned /\ audio \in Scenario5) =>
        /\ Len(result.tracks) = 2
        /\ result.tracks[1].side = "A"
        /\ result.tracks[2].side = "A"

C15_Witness ==
    /\ VinylReturned
    /\ audio \in Scenario5
    /\ Len(segments) = 2
    /\ Len(result.tracks) = 2

\* The call has split a non-empty buffer.
Split == method # "none" /\ AudioLen(audio) > 0

\* Silent runs of the buffer long enough to count as a gap.
QualifyingSilences ==
    {k \in 1..Len(audio) : ~audio[k].loud /\ audio[k].len >= min_silence_len}

RECURSIVE SilenceIn(_)
SilenceIn(ks) ==
    IF ks = {} THEN 0
    ELSE LET k == CHOOSE x \in ks : TRUE IN audio[k].len + SilenceIn(ks \ {k})

\* C16: the segments of a non-empty buffer are in chronological order, do not
\* overlap, are non-empty and lie within the buffer, whatever keep_silence.
C16_SegmentsOrdered ==
    Split =>
        /\ \A k \in 1..Len(segments) :
              /\ 0 <= segments[k].start
              /\ segments[k].start < segments[k].end
              /\ segments[k].end <= AudioLen(audio)
        /\ \A k \in 1..(Len(segments) - 1) : segments[k].end <= segments[k + 1].start

C16_Witness ==
    /\ Split
    /\ keep_silence = 500
    /\ Len(segments) >= 3
    /\ segments[1].start = 0
    /\ segments[1].end = segments[2].start
    /\ segments[2].end < segments[3].start

\* C17 (as stated): with keep_silence = 0 the segment spans, put end to end,
\* are the whole buffer.
C17_SpansCoverBuffer ==
    (Split /\ method = "detect_tracks" /\ keep_silence = 0) =>
        /\ segments # <<>>
        /\ segments[1].start = 0
        /\ segments[Len(segments)].end = AudioLen(audio)
        /\ \A k \in 1..(Len(segments) - 1) : segments[k].end = segments[k + 1].start
        /\ SumSegLens(segments, Len(segments)) = AudioLen(audio)

\* C17 (amended): with keep_silence = 0 the segments are the buffer without
\* its qualifying silences: their lengths sum to the buffer length minus the
\* length of the silent runs of at least min_silence_len, and no segment
\* touches the next.
C17_SpansLeaveOutSilence ==
    (Split /\ method = "detect_tracks" /\ keep_silence = 0) =>
        /\ SumSegLens(segments, Len(segments))
              = AudioLen(audio) - SilenceIn(QualifyingSilences)
        /\ \A k \in 1..(Len(segments) - 1) :
              segments[k + 1].start - segments[k].end >= min_silence_len

C17_Witness ==
    /\ Split
    /\ method = "detect_tracks"
    /\ keep_silence = 0
    /\ Len(segments) = 2
    /\ segments[1].start > 0
    /\ segments[2].end < AudioLen(audio)
    /\ Cardinality(QualifyingSilences) = 3

\* C18: a buffer with no silent run of at least min_silence_len is one
\* segment, the entire buffer, whatever keep_silence.
C18_NoGapOneSegment ==
    (Split /\ QualifyingSilences = {}) =>
        segments = <<Range(0, AudioLen(audio))>>

C18_Witness ==
    /\ Split
    /\ QualifyingSilences = {}
    /\ Len(audio) = 5
    /\ \E k \in 1..Len(audio) : ~audio[k].loud /\ audio[k].len = 800
    /\ keep_silence = 500
    /\ segments = <<Range(0, AudioLen(audio))>>

-----------------------------------------------------------------------------
(* analyze_quality, in three steps: the levels, the loudness measurement   *)
(* with its own handler, and the clipping count with the return.           *)

\* The array holds nothing np.max could reduce: it raises ValueError.
MaxOfEmptyRaises(data) == SampleCount(data) = 0

AnalyzeQuality ==
    /\ q_pc = "idle"
    /\ IF FrameCount(audio_data) = 0
       THEN /\ q_pc' = "done"
            /\ q_result' = QualityOutcome(QualityHandler(EmptyDataError), NoQuality)
            /\ UNCHANGED <<peak_level, rms_level, dynamic_range>>
       ELSE IF MaxOfEmptyRaises(audio_data)
       THEN /\ q_pc' = "done"
            /\ q_result' = QualityOutcome(QualityHandler("ValueError"), NoQuality)
            /\ UNCHANGED <<peak_level, rms_level, dynamic_range>>
       ELSE /\ q_pc' = "loudness"
            /\ peak_level' = PeakLevel(MaxAbs(audio_data))
            /\ rms_level' = RmsLevel(audio_data)
            /\ dynamic_range' = DynamicRange(PeakLevel(MaxAbs(audio_data)), RmsLevel(audio_data))
            /\ UNCHANGED q_result
    /\ UNCHANGED <<audio_data, sample_rate, loudness, meter>>
    /\ UNCHANGED <<dvars, avars>>

LoudnessFallbackNan == [kind |-> "nan"]

\* except Exception: loudness = -23.0
LoudnessFallback == Lufs(FallbackLufs)

\* The measurement is the library's: on an array shorter than a gating block
\* it raises, on any other it returns some value or raises.
MeasureLoudness ==
    /\ q_pc = "loudness"
    /\ \E raised \in BOOLEAN, measured \in MeterValues :
          /\ TooShortForMeter(audio_data, sample_rate) => raised
          /\ raised => measured = Lufs(FallbackLufs)
          /\ loudness' = IF raised THEN LoudnessFallback ELSE measured
          /\ meter' = IF raised THEN "raised" ELSE "measured"
    /\ q_pc' = "clipping"
    /\ UNCHANGED <<audio_data, sample_rate, peak_level, rms_level, dynamic_range, q_result>>
    /\ UNCHANGED <<dvars, avars>>

QualityReturn ==
    /\ q_pc = "clipping"
    /\ q_pc' = "done"
    /\ q_result' = QualityOutcome("returned",
                      AudioQuality(Round2(peak_level), Round2(rms_level), Round2(dynamic_range),
                                   Round2(loudness),
                                   ClippingPercent(ClippedSamples(audio_data),
                                                   SampleCount(audio_data)),
                                   sample_rate, Duration(audio_data, sample_rate)))
    /\ UNCHANGED <<audio_data, sample_rate, peak_level, rms_level, dynamic_range, loudness,
                   meter>>
    /\ UNCHANGED <<dvars, avars>>

InitQuality ==
    /\ DetectIdle
    /\ audio = <<>>
    /\ NothingAssessed
    /\ QualityIdle
    /\ audio_data \in Datas
    /\ sample_rate \in SampleRates

NextQuality ==
    \/ AnalyzeQuality
    \/ MeasureLoudness
    \/ QualityReturn

SpecQuality == InitQuality /\ [][NextQuality]_vars

QualityDone == q_pc = "done"

AllZero(data) ==
    \A k \in 1..Len(data.runs) : \A c \in 1..data.channels : data.runs[k].frame[c] = 0

\* C19: analyze_quality on an array with no samples, whether mono or of
\* several channels, ends by raising QualityAnalysisError and returns no
\* AudioQuality.
C19_NoSamplesFails ==
    (QualityDone /\ SampleCount(audio_data) = 0)
        => q_result = QualityOutcome("QualityAnalysisError", NoQuality)

\* An empty stereo array has been refused.
C19_Witness ==
    /\ QualityDone
    /\ audio_data = Data(2, 2, <<>>)
    /\ q_result.status = "QualityAnalysisError"

\* C20: for every array that has samples, all of them 0, analyze_quality
\* returns an AudioQuality with clipping_percent 0, peak_db -inf and
\* dynamic_range 0; and peak_db is -inf in no returned record of an array
\* with a sample that is not 0.
C20_SilenceLevels ==
    (QualityDone /\ SampleCount(audio_data) > 0) =>
        /\ AllZero(audio_data) =>
              /\ q_result.status = "returned"
              /\ q_result.quality.clipping_percent = 0
              /\ q_result.quality.peak_db = NegInf
              /\ q_result.quality.dynamic_range = Zero
        /\ (q_result.status = "returned" /\ q_result.quality.peak_db = NegInf)
              => AllZero(audio_data)

\* A long stereo silence has been analysed.
C20_Witness ==
    /\ QualityDone
    /\ audio_data.channels = 2
    /\ FrameCount(audio_data) > 20000
    /\ AllZero(audio_data)
    /\ q_result.status = "returned"
    /\ q_result.quality.peak_db = NegInf

\* The fields of an AudioQuality other than loudness_lufs.
BesideLoudness(q) ==
    <<q.peak_db, q.rms_db, q.dynamic_range, q.clipping_percent, q.sample_rate,
      q.duration_seconds>>

\* What the fields other than loudness_lufs are of an array and a rate,
\* whatever the loudness measurement does.
BesideLoudnessOf(data, rate) ==
    <<Round2(PeakLevel(MaxAbs(data))), Round2(RmsLevel(data)),
      Round2(DynamicRange(PeakLevel(MaxAbs(data)), RmsLevel(data))),
      ClippingPercent(ClippedSamples(data), SampleCount(data)), rate, Duration(data, rate)>>

\* C21: when the loudness measurement raises on an array that has samples,
\* analyze_quality still returns an AudioQuality, with loudness_lufs -23.0;
\* its other fields are those of the array and the rate alone, the same after
\* a measurement that raised as after one that returned.
C21_LoudnessFallback ==
    (QualityDone /\ SampleCount(audio_data) > 0) =>
        /\ q_result.status = "returned"
        /\ meter \in {"measured", "raised"}
        /\ meter = "raised" => q_result.quality.loudness_lufs = Lufs(FallbackLufs)
        /\ BesideLoudness(q_result.quality) = BesideLoudnessOf(audio_data, sample_rate)

\* Two clipped frames, too short for a gating block, have been analysed.
C21_Witness ==
    /\ QualityDone
    /\ meter = "raised"
    /\ TooShortForMeter(audio_data, sample_rate)
    /\ ~AllZero(audio_data)
    /\ q_result.status = "returned"
    /\ q_result.quality.loudness_lufs = Lufs(FallbackLufs)
    /\ q_result.quality.clipping_percent > 0

\* The samples of an array, over all its channels, of magnitude level or more.
SamplesAtOrAbove(data, level) ==
    SumSeq([k \in 1..Len(data.runs) |->
              data.runs[k].count *
                  Cardinality({c \in 1..data.channels : Abs(data.runs[k].frame[c]) >= level})])

HundredPercent == 1000000   \* 100 %, in ten-thousandths of a percent

\* C22: for every array that has samples, clipping_percent is 100 times the
\* number of samples of magnitude 0.99 or more, counted over all channels,
\* divided by the number of all samples of all channels (to the four decimal
\* places the record keeps: it is the ten-thousandth nearest to that
\* quotient), and it lies between 0 and 100.
C22_ClippingPercent ==
    (QualityDone /\ SampleCount(audio_data) > 0) =>
        LET cp == q_result.quality.clipping_percent
            clipped == SamplesAtOrAbove(audio_data, ClipLevel)
            total == FrameCount(audio_data) * audio_data.channels
        IN  /\ q_result.status = "returned"
            /\ 2 * Abs(cp * total - HundredPercent * clipped) <= total
            /\ 0 <= cp
            /\ cp <= HundredPercent

\* A stereo array with a sample of exactly 0.99 beside lower ones has been
\* analysed: the sample counts, and the percentage is neither 0 nor 100.
C22_Witness ==
    /\ QualityDone
    /\ audio_data.channels = 2
    /\ SamplesAtOrAbove(audio_data, ClipLevel) > 0
    /\ SamplesAtOrAbove(audio_data, FullScale) = 0
    /\ q_result.status = "returned"
    /\ q_result.quality.clipping_percent > 0
    /\ q_result.quality.clipping_percent < HundredPercent

\* The frames that frame becomes when some of its samples are raised in
\* magnitude.
RaisedFrames(frame) ==
    {g \in [1..Len(frame) -> SampleValues] : \A c \in 1..Len(frame) : Abs(g[c]) >= Abs(frame[c])}

\* The arrays of the size of data that differ from it only in samples of one
\* run of frames raised in magnitude; the long stretches of silence are left
\* as they are.
RaisedDatas(data) ==
    {Data(data.ndim, data.channels,
          [data.runs EXCEPT ![kg[1]] = FrameRun(kg[2], data.runs[kg[1]].count)]) :
        kg \in UNION {{<<k, g>> : g \in RaisedFrames(data.runs[k].frame)} :
                         k \in {n \in 1..Len(data.runs) : data.runs[n].count <= 2}}}

\* C23: the clipping_percent returned for an array is not above the one of
\* any array of the same size that differs from it only in samples raised in
\* magnitude toward full scale (any samples of one of its runs of frames;
\* raising samples of several runs is a chain of such steps).
C23_ClippingMonotone ==
    (QualityDone /\ q_result.status = "returned") =>
        \A louder \in RaisedDatas(audio_data) :
            q_result.quality.clipping_percent
                <= ClippingPercent(ClippedSamples(louder), SampleCount(louder))

\* An array with a clipped sample has been analysed, and raising others of
\* its samples gives a higher percentage.
C23_Witness ==
    /\ QualityDone
    /\ q_result.status = "returned"
    /\ q_result.quality.clipping_percent > 0
    /\ \E louder \in RaisedDatas(audio_data) :
          q_result.quality.clipping_percent
              < ClippingPercent(ClippedSamples(louder), SampleCount(louder))

-----------------------------------------------------------------------------
(* One AudioProcessor serving a segmentation call and a quality analysis   *)
(* at once, on inputs of their own: the steps of the two calls interleave  *)
(* in every order.                                                         *)

InterleavedBuffers == ScenarioBuffers \cup OddBuffers \cup {<<>>}

InterleavedDatas ==
    {Data(1, 1, <<>>),
     Data(2, 0, <<FrameRun(<<>>, 1)>>),
     Data(1, 1, <<FrameRun(<<FullScale>>, 1)>>),
     Data(2, 2, <<FrameRun(<<0, 0>>, 20000)>>),
     Data(2, 2, <<FrameRun(<<ClipLevel, 0>>, 2), FrameRun(<<0, 0>>, 2100000)>>)}

InitAll ==
    /\ DetectIdle
    /\ audio \in InterleavedBuffers
    /\ NothingAssessed
    /\ QualityIdle
    /\ audio_data \in InterleavedDatas
    /\ sample_rate \in SampleRates

\* The next call of detect_tracks or detect_vinyl_tracks on the same
\* AudioProcessor: the class has no fields and the locals of the call that
\* returned are gone, so all that is left is the new argument.
DetectAgain ==
    /\ pc = "done"
    /\ pc' = "idle"
    /\ method' = "none"
    /\ audio' \in InterleavedBuffers
    /\ min_silence_len' = 0
    /\ min_track_len' = 0
    /\ keep_silence' = 0
    /\ segments' = <<>>
    /\ i' = 0
    /\ current_time' = 0
    /\ current_side' = "-"
    /\ track_number_in_side' = 0
    /\ global_track_number' = 0
    /\ gap_before' = 0
    /\ tracks' = <<>>
    /\ origin' = <<>>
    /\ result' = Outcome("none", <<>>)
    /\ UNCHANGED <<qvars, avars>>

\* The next call of analyze_quality on the same AudioProcessor.
QualityAgain ==
    /\ q_pc = "done"
    /\ q_pc' = "idle"
    /\ audio_data' \in InterleavedDatas
    /\ sample_rate' \in SampleRates
    /\ peak_level' = Zero
    /\ rms_level' = Zero
    /\ dynamic_range' = Zero
    /\ loudness' = Zero
    /\ meter' = "none"
    /\ q_result' = QualityOutcome("none", NoQuality)
    /\ UNCHANGED <<dvars, avars>>

NextAll ==
    \/ Next
    \/ NextQuality
    \/ DetectAgain
    \/ QualityAgain

SpecAll == InitAll /\ [][NextAll]_vars

\* C24: a call that fails fails as a whole.  A segmentation call ends either
\* returning its Track list or raising ProcessingError with no list, and it
\* raises when a step of it fails (the buffer is empty); an analysis ends
\* either returning an AudioQuality or raising QualityAnalysisError with no
\* record, and it raises when a step of it fails (no frames, no samples);
\* nothing is returned before the end of a call; and a loudness measurement
\* that raised has not kept the analysis from returning.
C24_WholeCallFailures ==
    /\ result.status \in {"none", "ProcessingError", "returned"}
    /\ result.status = "ProcessingError" => result.tracks = <<>>
    /\ pc # "done" => result = Outcome("none", <<>>)
    /\ pc = "done" => (result.status = "ProcessingError" <=> IsEmptyAudio(audio))
    /\ q_result.status \in {"none", "QualityAnalysisError", "returned"}
    /\ q_result.status # "returned" => q_result.quality = NoQuality
    /\ q_pc # "done" => q_result = QualityOutcome("none", NoQuality)
    /\ QualityDone =>
          (q_result.status = "QualityAnalysisError" <=> SampleCount(audio_data) = 0)
    /\ (QualityDone /\ meter = "raised") => q_result.status = "returned"

\* Both calls have failed, the analysis on an array of frames without
\* channels, where what was raised inside was a ValueError.
C24_Witness ==
    /\ pc = "done"
    /\ result = Outcome("ProcessingError", <<>>)
    /\ QualityDone
    /\ FrameCount(audio_data) > 0
    /\ q_result = QualityOutcome("QualityAnalysisError", NoQuality)

\* What detect_tracks returns for a segment list when nothing else runs: a
\* Track for every segment of at least min_len, numbered by the position of
\* the segment and placed at the sum of the lengths before it.
RECURSIVE AloneTracks(_, _, _)
AloneTracks(segs, min_len, idx) ==
    IF idx = Len(segs) THEN <<>>
    ELSE LET len == SegLen(segs[idx + 1])
             start == SumSegLens(segs, idx)
         IN  (IF len >= min_len
              THEN <<Track(idx + 1, len, start, start + len, "A")>>
              ELSE <<>>) \o AloneTracks(segs, min_len, idx + 1)

\* What detect_vinyl_tracks returns for a segment list when nothing else
\* runs, number being the number of the next Track.
RECURSIVE AloneVinylTracks(_, _, _)
AloneVinylTracks(segs, idx, number) ==
    IF idx = Len(segs) THEN <<>>
    ELSE LET len == SegLen(segs[idx + 1])
             start == SumSegLens(segs, idx)
         IN  IF len >= DEFAULT_MIN_TRACK_LEN_MS
             THEN <<Track(number, len, start, start + len, "A")>>
                      \o AloneVinylTracks(segs, idx + 1, number + 1)
             ELSE AloneVinylTracks(segs, idx + 1, number)

AloneResult ==
    IF AudioLen(audio) = 0 THEN Outcome("ProcessingError", <<>>)
    ELSE LET segs == SplitOnSilence(audio, min_silence_len, keep_silence)
         IN  IF method = "detect_tracks"
             THEN Outcome("returned", AloneTracks(segs, min_track_len, 0))
             ELSE Outcome("returned", AloneVinylTracks(segs, 0, 1))

-----------------------------------------------------------------------------
(* The assessments of an AudioQuality: three properties, each read on its  *)
(* own.  Where the record comes from analyze_quality its levels are held   *)
(* as what they are the logarithm of, so only clipping_assessment is read  *)
(* there; SpecAssess reads all three on records whose levels are numbers.  *)

ReadPeakAssessment(q) ==
    /\ peak_assessment = "unread"
    /\ peak_assessment' = PeakAssessment(q)
    /\ UNCHANGED <<quality, dynamic_range_assessment, clipping_assessment>>
    /\ UNCHANGED <<dvars, qvars>>

ReadDynamicRangeAssessment(q) ==
    /\ dynamic_range_assessment = "unread"
    /\ dynamic_range_assessment' = DynamicRangeAssessment(q)
    /\ UNCHANGED <<quality, peak_assessment, clipping_assessment>>
    /\ UNCHANGED <<dvars, qvars>>

ReadClippingAssessment(q) ==
    /\ clipping_assessment = "unread"
    /\ clipping_assessment' = ClippingAssessment(q)
    /\ UNCHANGED <<quality, peak_assessment, dynamic_range_assessment>>
    /\ UNCHANGED <<dvars, qvars>>

\* Levels on both sides of -1 and -3, ranges on both sides of 8 and 14, in
\* hundredths of a dB; -inf, nan and the integer 0 beside them.
PeakValues ==
    {NegInf, [kind |-> "nan"]}
        \cup {Db(h) : h \in {-9000, -301, PeakHighDb, -299, -101, PeakVeryHighDb, -99, 0}}

DynamicRangeValues ==
    {Zero} \cup {Db(h) : h \in {799, DynamicRangeLowDb, 1399, DynamicRangeModerateDb, 2000}}

\* Percentages from 0 to 100, in ten-thousandths.
ClippingValues == {0, 1, 999, ClippingSignificant, 1001, 500000, HundredPercent}

AssessedQualities ==
    {AudioQuality(p, Db(-2000), dr, Lufs(-1437), c, 44100,
                  Duration(Data(1, 1, <<FrameRun(<<50>>, 44100)>>), 44100)) :
        p \in PeakValues, dr \in DynamicRangeValues, c \in ClippingValues}

InitAssess ==
    /\ DetectIdle
    /\ audio = <<>>
    /\ QualityIdle
    /\ audio_data = Data(1, 1, <<>>)
    /\ sample_rate = 44100
    /\ quality \in AssessedQualities
    /\ peak_assessment = "unread"
    /\ dynamic_range_assessment = "unread"
    /\ clipping_assessment = "unread"

NextAssess ==
    \/ ReadPeakAssessment(quality)
    \/ ReadDynamicRangeAssessment(quality)
    \/ ReadClippingAssessment(quality)

SpecAssess == InitAssess /\ [][NextAssess]_vars

\* C26: peak_assessment depends on peak_db alone and is exactly one of three
\* texts: "very high (may be clipped)" exactly when peak_db > -1, "high"
\* exactly when -3 < peak_db <= -1, "good" in every other case, peak_db = -3
\* and -inf among them.
C26_PeakAssessment ==
    peak_assessment # "unread" =>
        LET p == quality.peak_db
            number == p.kind = "hundredths"
        IN  /\ peak_assessment \in {"Peak level is very high (may be clipped)",
                                    "Peak level is high", "Peak level is good"}
            /\ peak_assessment = "Peak level is very high (may be clipped)"
                  <=> (number /\ p.hundredths > -100)
            /\ peak_assessment = "Peak level is high"
                  <=> (number /\ -300 < p.hundredths /\ p.hundredths <= -100)
            /\ (p = NegInf \/ p = Db(-300)) => peak_assessment = "Peak level is good"

\* A peak of exactly -3 dB has been assessed, beside the heaviest clipping
\* and the narrowest range.
C26_Witness ==
    /\ quality.peak_db = Db(-300)
    /\ quality.clipping_percent = HundredPercent
    /\ quality.dynamic_range = Zero
    /\ peak_assessment = "Peak level is good"

\* C27: clipping_assessment depends on clipping_percent alone and, for a
\* percentage from 0 to 100, is exactly one of three texts: "significant"
\* exactly when clipping_percent > 0.1, "minor" exactly when
\* 0 < clipping_percent <= 0.1, "no clipping" exactly when it is 0.
C27_ClippingAssessment ==
    (clipping_assessment # "unread" /\ quality # NoQuality) =>
        LET c == quality.clipping_percent
        IN  /\ clipping_assessment \in {"Significant clipping detected",
                                        "Minor clipping detected", "No clipping detected"}
            /\ clipping_assessment = "Significant clipping detected" <=> c > 1000
            /\ clipping_assessment = "Minor clipping detected" <=> (0 < c /\ c <= 1000)
            /\ clipping_assessment = "No clipping detected" <=> c = 0

\* A percentage of exactly 0.1 has been assessed, beside a peak of -inf.
C27_Witness ==
    /\ quality # NoQuality
    /\ quality.clipping_percent = 1000
    /\ quality.peak_db = NegInf
    /\ clipping_assessment = "Minor clipping detected"

-----------------------------------------------------------------------------

Geometry(list) ==
    [k \in 1..Len(list) |-> <<list[k].duration_ms, list[k].start_time, list[k].end_time>>]

\* Length, and sum of the lengths before it to sum of the lengths through it,
\* of every segment from idx on that is at least min_len long.
RECURSIVE SurvivorSpans(_, _, _)
SurvivorSpans(segs, min_len, idx) ==
    IF idx = Len(segs) THEN <<>>
    ELSE LET len == SegLen(segs[idx + 1])
             start == SumSegLens(segs, idx)
         IN  (IF len >= min_len THEN <<(<<len, start, start + len>>)>> ELSE <<>>)
                 \o SurvivorSpans(segs, min_len, idx + 1)

\* C29: with min_track_len = 10000 the Track list of detect_tracks and the
\* Track list of detect_vinyl_tracks are, in duration_ms, start_time and
\* end_time, the same function of the segment list: as many Tracks, with the
\* same three values at every position, whichever of the two ran.
C29_SameGeometry ==
    (Returned /\ min_track_len = DEFAULT_MIN_TRACK_LEN_MS) =>
        Geometry(result.tracks) = SurvivorSpans(segments, DEFAULT_MIN_TRACK_LEN_MS, 0)

\* detect_tracks has returned, from the segment list detect_vinyl_tracks
\* works on, two Tracks of which the second is numbered 3.
C29_Witness ==
    /\ TracksReturned
    /\ min_track_len = DEFAULT_MIN_TRACK_LEN_MS
    /\ segments = SplitOnSilence(audio, VinylMinSilenceLen, DEFAULT_KEEP_SILENCE_MS)
    /\ Len(result.tracks) = 2
    /\ result.tracks[2].number = 3

-----------------------------------------------------------------------------
(* analyze_quality followed by the reading of clipping_assessment on the   *)
(* record it returned.                                                     *)

ClippingReport ==
    /\ QualityDone
    /\ q_result.status = "returned"
    /\ ReadClippingAssessment(q_result.quality)

NextReport ==
    \/ NextQuality
    \/ ClippingReport

SpecReport == InitQuality /\ [][NextReport]_vars

\* C30: for every array with at least one sample of magnitude 0.99 or more,
\* the clipping_percent of the returned record (rounded to 4 decimal places)
\* is above 0 and its clipping_assessment is "minor" or "significant", never
\* "no clipping".
C30_ClippedIsReported ==
    (clipping_assessment # "unread" /\ SamplesAtOrAbove(audio_data, ClipLevel) > 0) =>
        /\ q_result.quality.clipping_percent > 0
        /\ clipping_assessment \in {"Minor clipping detected", "Significant clipping detected"}

====
